---- MODULE Spec2Model ----
(***************************************************************************)
(* Model of utilities/parameter_estimation_utilities.py of                 *)
(* ModularityPruning: SBM parameter estimation from a partition, the       *)
(* resolution-parameter estimates derived from it, the stability filters   *)
(* and the single-layer pruning pipeline.                                  *)
(*                                                                         *)
(* Numbers.  Python numbers are modelled as exact rationals <<n, d>> in    *)
(* lowest terms with d > 0.  Rounding of the floating-point operations is  *)
(* not modelled.  A pair with d = 0 is not a number: <<0, 0>> is Python's  *)
(* None and <<1, 0>> is numpy's nan.  The outcome of a call is a record    *)
(* [exc, val]: exc is "" and val the returned value, or exc names the      *)
(* exception the call raised.                                              *)
(***************************************************************************)
EXTENDS Integers, Sequences, FiniteSets, TLC

VARIABLES
    gamma_estimates,        \* argument of gamma_estimates_to_stable_partitions
    stable_parts,           \* its outcome, Pending before the call
    polyverts,              \* the dominance polygon a caller is building
    domains_with_estimates, \* argument of gamma_omega_estimates_to_stable_partitions
    stable_domains,         \* its outcome, Pending before the call
    net_G,                  \* the graph G (the intralayer graph of a multilayer network)
    net_G_interlayer,       \* the interlayer graph
    net_layer_vec,          \* the layer of every vertex
    net_membership,         \* the community of every vertex
    net_model,              \* the topology tag
    call,                   \* the estimator called last, "" before the first call
    ret,                    \* its outcome
    ret_undirected,         \* the outcome kept from before G.to_directed()
    params,                 \* SBM parameters handed to the parameter formulas
    estimate,               \* the outcome of the formula applied to them
    prune_args,             \* arguments of prune_to_stable_partitions
    prune_pc,               \* the statement prune_to_stable_partitions is at
    prune_parts,            \* its local variable parts
    prune_ranges,           \* its local variable ranges
    prune_estimates,        \* its local variable gamma_estimates
    prune_log,              \* the calls it has made, in order
    prune_ret,              \* its outcome, Pending until it returns
    call_args               \* the optional arguments N, T, Nt, layer_vec of the call

filterVars == <<gamma_estimates, stable_parts>>
domainVars == <<polyverts, domains_with_estimates, stable_domains>>
graphVars ==
    <<net_G, net_G_interlayer, net_layer_vec, net_membership, net_model,
      call, ret, ret_undirected>>
paramVars == <<params, estimate>>
pruneVars ==
    <<prune_args, prune_pc, prune_parts, prune_ranges, prune_estimates, prune_log,
      prune_ret>>
configVars == <<call_args>>
vars == <<filterVars, domainVars, graphVars, paramVars, pruneVars, configVars>>
notFilterVars == <<domainVars, graphVars, paramVars, pruneVars, configVars>>
notDomainVars == <<filterVars, graphVars, paramVars, pruneVars, configVars>>
notGraphVars == <<filterVars, domainVars, paramVars, pruneVars, configVars>>
notParamVars == <<filterVars, domainVars, graphVars, pruneVars, configVars>>

None == <<0, 0>>
NaN == <<1, 0>>

Ok(v) == [exc |-> "", val |-> v]
Raise(e) == [exc |-> e, val |-> <<>>]
Pending == [exc |-> "pending", val |-> <<>>]
Returned(r) == r.exc = ""

(***************************************************************************)
(* Rational arithmetic                                                     *)
(***************************************************************************)
Abs(x) == IF x < 0 THEN -x ELSE x

RECURSIVE Gcd(_, _)
Gcd(a, b) == IF b = 0 THEN a ELSE Gcd(b, a % b)

Rat(n, d) ==
    IF d = 1 THEN <<n, 1>>
    ELSE LET g == Gcd(Abs(n), Abs(d))
             s == IF d < 0 THEN -1 ELSE 1
         IN <<(s * n) \div g, (s * d) \div g>>

Int2Rat(n) == <<n, 1>>
RZero == <<0, 1>>
ROne == <<1, 1>>
RAdd(a, b) == Rat(a[1] * b[2] + b[1] * a[2], a[2] * b[2])
RSub(a, b) == Rat(a[1] * b[2] - b[1] * a[2], a[2] * b[2])
RMul(a, b) == Rat(a[1] * b[1], a[2] * b[2])
RDiv(a, b) == Rat(a[1] * b[2], a[2] * b[1])
RLt(a, b) == a[1] * b[2] < b[1] * a[2]
RLe(a, b) == a[1] * b[2] <= b[1] * a[2]
RIsZero(a) == a[1] = 0

(***************************************************************************)
(* Single-layer stability filter                                           *)
(***************************************************************************)
MaxGamma == 2
MaxEntries == 2

\* Python's <= on floats: every comparison with nan is False.
PyLe(a, b) == a # NaN /\ b # NaN /\ RLe(a, b)
PyLt(a, b) == a # NaN /\ b # NaN /\ RLt(a, b)

\* The condition of the comprehension: gamma_estimate is not None and
\* gamma_start <= gamma_estimate <= gamma_end.
StableCondStrict(e) ==
    /\ e.gamma_estimate # None
    /\ PyLt(e.gamma_start, e.gamma_estimate)
    /\ PyLe(e.gamma_estimate, e.gamma_end)

StableCond(e) ==
    /\ e.gamma_estimate # None
    /\ PyLe(e.gamma_start, e.gamma_estimate)
    /\ PyLe(e.gamma_estimate, e.gamma_end)

RECURSIVE gamma_estimates_to_stable_partitions(_)
gamma_estimates_to_stable_partitions(ges) ==
    IF ges = <<>> THEN <<>>
    ELSE (IF StableCond(Head(ges)) THEN <<Head(ges).membership>> ELSE <<>>)
         \o gamma_estimates_to_stable_partitions(Tail(ges))

GammaValues == {Int2Rat(i) : i \in 0..MaxGamma}

\* The entries a caller can append as entry number k; the membership is an
\* opaque token, here the entry's number.
GammaEntries(k) ==
    [gamma_start : GammaValues, gamma_end : GammaValues,
     membership : {k}, gamma_estimate : GammaValues \cup {None, NaN}]

FilterInit ==
    /\ gamma_estimates = <<>>
    /\ stable_parts = Pending

DomainInit ==
    /\ polyverts = <<>>
    /\ domains_with_estimates = <<>>
    /\ stable_domains = Pending

\* The caller builds the list of (gamma_start, gamma_end, membership, estimate).
AppendEstimate ==
    /\ stable_parts = Pending
    /\ Len(gamma_estimates) < MaxEntries
    /\ \E e \in GammaEntries(Len(gamma_estimates) + 1) :
          gamma_estimates' = Append(gamma_estimates, e)
    /\ UNCHANGED <<stable_parts, notFilterVars>>

CallFilter ==
    /\ stable_parts = Pending
    /\ stable_parts' = Ok(gamma_estimates_to_stable_partitions(gamma_estimates))
    /\ UNCHANGED <<gamma_estimates, notFilterVars>>

FilterNext == AppendEstimate \/ CallFilter


\* The indices of the entries whose estimate is a number inside the closed
\* interval [gamma_start, gamma_end].
InsideClosed(ges) ==
    {i \in 1..Len(ges) :
        /\ ges[i].gamma_estimate \notin {None, NaN}
        /\ ges[i].gamma_start[1] * ges[i].gamma_estimate[2]
              <= ges[i].gamma_estimate[1] * ges[i].gamma_start[2]
        /\ ges[i].gamma_estimate[1] * ges[i].gamma_end[2]
              <= ges[i].gamma_end[1] * ges[i].gamma_estimate[2]}

\* C1: gamma_estimates_to_stable_partitions returns, in input order, exactly
\* the memberships of the entries whose gamma_estimate is not None and lies
\* in [gamma_start, gamma_end], endpoints included; nothing else is returned.
C1_SingleLayerFilter ==
    stable_parts # Pending =>
        LET kept == InsideClosed(gamma_estimates)
        IN /\ Returned(stable_parts)
           /\ Len(stable_parts.val) = Cardinality(kept)
           /\ \A i \in kept :
                stable_parts.val[Cardinality({k \in kept : k <= i})]
                    = gamma_estimates[i].membership

\* A call that keeps an entry whose estimate equals gamma_start and drops
\* an entry whose estimate is None.
C1_Witness ==
    /\ Returned(stable_parts)
    /\ Len(gamma_estimates) = 2
    /\ gamma_estimates[1].gamma_estimate = gamma_estimates[1].gamma_start
    /\ gamma_estimates[1].gamma_start # gamma_estimates[1].gamma_end
    /\ gamma_estimates[2].gamma_estimate = None
    /\ stable_parts.val = <<gamma_estimates[1].membership>>

(***************************************************************************)
(* Multilayer stability filter                                             *)
(***************************************************************************)
MaxCoord == 1
MaxVerts == 4

\* The test of line 318 with > in place of >=.
left_or_right_strict(x1, y1, x2, y2, x, y) ==
    RLt(RZero, RSub(RMul(RSub(x, x1), RSub(y2, y1)),
                    RMul(RSub(y, y1), RSub(x2, x1))))

\* left_or_right(x1, y1, x2, y2, x, y)
left_or_right(x1, y1, x2, y2, x, y) ==
    RLe(RZero, RSub(RMul(RSub(x, x1), RSub(y2, y1)),
                    RMul(RSub(y, y1), RSub(x2, x1))))

RECURSIVE RSum(_)
RSum(xs) == IF xs = <<>> THEN RZero ELSE RAdd(Head(xs), RSum(Tail(xs)))

\* np.mean of a non-empty list
Mean(xs) == RDiv(RSum(xs), Int2Rat(Len(xs)))

\* The edges of the polygon, each swapped when the centroid passes the test.
polygon_edges(pv) ==
    LET centroid_x == Mean([i \in 1..Len(pv) |-> pv[i][1]])
        centroid_y == Mean([i \in 1..Len(pv) |-> pv[i][2]])
    IN [i \in 1..Len(pv) |->
          LET p1 == pv[i]
              p2 == pv[(i % Len(pv)) + 1]
          IN IF left_or_right(p1[1], p1[2], p2[1], p2[2], centroid_x, centroid_y)
             THEN <<p2, p1>> ELSE <<p1, p2>>]

left_or_rights(pv, gamma_est, omega_est) ==
    LET es == polygon_edges(pv)
    IN [i \in 1..Len(es) |->
          left_or_right(es[i][1][1], es[i][1][2], es[i][2][1], es[i][2][2],
                        gamma_est, omega_est)]

\* all(x for x in left_or_rights) or all(not x for x in left_or_rights)
SameSideAllTrueOnly(lors) == \A i \in 1..Len(lors) : lors[i]

SameSide(lors) ==
    \/ \A i \in 1..Len(lors) : lors[i]
    \/ \A i \in 1..Len(lors) : ~lors[i]

RECURSIVE gamma_omega_estimates_to_stable_partitions(_)
gamma_omega_estimates_to_stable_partitions(dwe) ==
    IF dwe = <<>> THEN <<>>
    ELSE LET d == Head(dwe)
             rest == gamma_omega_estimates_to_stable_partitions(Tail(dwe))
         IN IF d.gamma_est = None \/ d.omega_est = None THEN rest
            ELSE IF SameSide(left_or_rights(d.polyverts, d.gamma_est, d.omega_est))
                 THEN <<d>> \o rest
                 ELSE rest

\* Coordinates are counted in quarter units: polygon vertices lie on the
\* points of the grid whose coordinates are multiples of 4, and estimates on
\* every point of the grid and of a margin of one around it, so that every
\* polygon has estimates strictly inside, on its boundary and strictly outside.
GridVertices ==
    {<<Int2Rat(4 * x), Int2Rat(4 * y)>> : x \in 0..MaxCoord, y \in 0..MaxCoord}
QuarterGrid == {Int2Rat(i) : i \in (-1)..(4 * MaxCoord + 1)}

\* (b - a) x (c - a), the orientation of the triple a, b, c of grid points.
Cross(a, b, c) ==
    (b[1][1] - a[1][1]) * (c[2][1] - a[2][1])
        - (b[2][1] - a[2][1]) * (c[1][1] - a[1][1])

Succ(pv, i) == pv[(i % Len(pv)) + 1]
AllLeft(pv, pt) == \A i \in 1..Len(pv) : Cross(pv[i], Succ(pv, i), pt) >= 0
AllRight(pv, pt) == \A i \in 1..Len(pv) : Cross(pv[i], Succ(pv, i), pt) <= 0
StrictlyLeft(pv, pt) == \A i \in 1..Len(pv) : Cross(pv[i], Succ(pv, i), pt) > 0
StrictlyRight(pv, pt) == \A i \in 1..Len(pv) : Cross(pv[i], Succ(pv, i), pt) < 0

\* An ordered vertex list of a convex polygon: distinct vertices, not all on
\* one line, every vertex on the same side of (or on) every edge.  Every
\* prefix of such a list is a ConvexChain.
ConvexChain(pv) ==
    /\ \A i, j \in 1..Len(pv) : i # j => pv[i] # pv[j]
    /\ \/ \A k \in 1..Len(pv) : AllLeft(pv, pv[k])
       \/ \A k \in 1..Len(pv) : AllRight(pv, pv[k])

IsConvexPolygon(pv) ==
    /\ Len(pv) >= 3
    /\ ConvexChain(pv)
    /\ \E i \in 1..Len(pv) : Cross(pv[1], pv[2], pv[i]) # 0

Counterclockwise(pv) == \A k \in 1..Len(pv) : AllLeft(pv, pv[k])

\* The (gamma_est, omega_est) pairs an estimate can be; either may be None.
Estimates ==
    (QuarterGrid \X QuarterGrid) \cup {<<None, RZero>>, <<RZero, None>>, <<None, None>>}

AddVertex ==
    /\ stable_domains = Pending
    /\ Len(polyverts) < MaxVerts
    /\ \E v \in GridVertices :
          /\ ConvexChain(Append(polyverts, v))
          /\ polyverts' = Append(polyverts, v)
    /\ UNCHANGED <<domains_with_estimates, stable_domains, notDomainVars>>

CallDomainFilter ==
    /\ stable_domains = Pending
    /\ IsConvexPolygon(polyverts)
    /\ \E e \in Estimates :
       LET g == e[1]
           w == e[2]
       IN /\ domains_with_estimates' =
                <<[polyverts |-> polyverts, membership |-> 1,
                   gamma_est |-> g, omega_est |-> w]>>
          /\ stable_domains' =
                Ok(gamma_omega_estimates_to_stable_partitions(domains_with_estimates'))
    /\ UNCHANGED <<polyverts, notDomainVars>>

DomainNext == AddVertex \/ CallDomainFilter


StrictlyInside(pv, pt) == StrictlyLeft(pv, pt) \/ StrictlyRight(pv, pt)
StrictlyOutside(pv, pt) == ~(AllLeft(pv, pt) \/ AllRight(pv, pt))

\* C2: for a convex polygon in either vertex order and a non-None estimate
\* (gamma_est, omega_est), the partition is kept when the estimate is strictly
\* inside the polygon and dropped when it is strictly outside.
C2_MultilayerFilter ==
    (Returned(stable_domains) /\ Len(domains_with_estimates) = 1) =>
        LET d == domains_with_estimates[1]
            pt == <<d.gamma_est, d.omega_est>>
        IN (d.gamma_est # None /\ d.omega_est # None) =>
              /\ StrictlyInside(d.polyverts, pt) => stable_domains.val = <<d>>
              /\ StrictlyOutside(d.polyverts, pt) => stable_domains.val = <<>>

\* A clockwise quadrilateral whose estimate, strictly inside, was kept.
C2_Witness ==
    /\ Returned(stable_domains)
    /\ Len(domains_with_estimates) = 1
    /\ Len(polyverts) = 4
    /\ ~Counterclockwise(polyverts)
    /\ domains_with_estimates[1].gamma_est # None
    /\ domains_with_estimates[1].omega_est # None
    /\ StrictlyInside(polyverts, <<domains_with_estimates[1].gamma_est,
                                   domains_with_estimates[1].omega_est>>)
    /\ stable_domains.val = domains_with_estimates
(***************************************************************************)
(* Graphs and partitions                                                   *)
(*                                                                         *)
(* A graph is [vcount, directed, es, has_weight, weight]: es is the edge   *)
(* list of <<source, target>> pairs of vertex ids 0..vcount-1, has_weight  *)
(* tells whether the edges carry a 'weight' attribute and weight lists it. *)
(* A partition is [membership, len]: the community of every vertex and     *)
(* len(partition).  Python lists are sequences, so that Python's xs[i] is  *)
(* xs[i + 1].  An optional argument is <<>> when left as None and <<v>>    *)
(* when given.                                                             *)
(***************************************************************************)
Unset == <<>>
Given(v) == <<v>>

At(xs, i) == xs[i + 1]
Source(G, i) == G.es[i][1]
Target(G, i) == G.es[i][2]
ecount(G) == Len(G.es)

RECURSIVE MaxOf(_)
MaxOf(xs) ==
    IF Len(xs) = 1 THEN xs[1]
    ELSE LET m == MaxOf(Tail(xs)) IN IF Head(xs) > m THEN Head(xs) ELSE m

\* G.es['weight'] = values: igraph assigns the values to the edges in order
\* and starts over from the first value when the list is shorter.
SetWeight(G, values) ==
    [G EXCEPT !.has_weight = TRUE,
              !.weight = [i \in 1..ecount(G) |-> values[((i - 1) % Len(values)) + 1]]]

Ones(n) == [i \in 1..n |-> ROne]

\* louvain_part_with_membership: the partition object of a membership vector.
louvain_part_with_membership(G, membership) ==
    [membership |-> membership, len |-> MaxOf(membership) + 1]

\* The weight that edges i of G adds to x when cond holds.
WeightIf(G, i, cond) == IF cond THEN G.weight[i] ELSE RZero

RSquare(x) == RMul(x, x)
RTwice(x) == RMul(Int2Rat(2), x)

(***************************************************************************)
(* estimate_singlelayer_SBM_parameters                                     *)
(***************************************************************************)
estimate_singlelayer_SBM_parameters(G, partition, m_arg) ==
    IF ~G.has_weight /\ (m_arg = Unset \/ ecount(G) > 0) THEN Raise("KeyError")
    ELSE
    LET m == IF m_arg = Unset THEN RSum(G.weight) ELSE m_arg[1]
        community == partition.membership
        m_in == RSum([i \in 1..ecount(G) |->
                        WeightIf(G, i, At(community, Source(G, i))
                                        = At(community, Target(G, i)))])
        kappa_r_list ==
            [r \in 1..partition.len |->
                RSum([i \in 1..ecount(G) |->
                        RAdd(WeightIf(G, i, At(community, Source(G, i)) = r - 1),
                             WeightIf(G, i, At(community, Target(G, i)) = r - 1))])]
        sum_kappa_sqr == RSum([r \in 1..partition.len |-> RSquare(kappa_r_list[r])])
        two_m == RTwice(m)
    IN IF RIsZero(two_m) THEN Raise("ZeroDivisionError")
       ELSE LET expected == RDiv(sum_kappa_sqr, two_m)
            IN IF RIsZero(expected) THEN Raise("ZeroDivisionError")
               ELSE IF partition.len > 1 /\ RIsZero(RSub(two_m, expected))
                    THEN Raise("ZeroDivisionError")
               ELSE LET omega_in == RDiv(RTwice(m_in), expected)
                        omega_out ==
                            IF partition.len > 1
                            THEN RDiv(RSub(two_m, RTwice(m_in)), RSub(two_m, expected))
                            ELSE RZero
                    IN Ok(<<omega_in, omega_out>>)

(***************************************************************************)
(* Resolution-parameter estimates.                                         *)
(*                                                                         *)
(* Logarithms are kept symbolic.  LogMean(d, r) is d / ln(r) and           *)
(* LogQuot(a, r, c) is ln(a) / (c * ln(r)), for rationals d # 0, a > 1,    *)
(* r > 0, r # 1 and an integer c > 0.  ln(x) - ln(y) is ln(x / y).         *)
(***************************************************************************)
LogMean(d, r) == <<d[1], d[2], r[1], r[2]>>
LogQuot(a, r, c) == <<a[1], a[2], r[1], r[2], c>>
IsRat(x) == Len(x) = 2 /\ x[2] > 0
IsLogMean(x) == Len(x) = 4
IsLogQuot(x) == Len(x) = 5

gamma_estimate_from_parameters(omega_in, omega_out) ==
    IF RIsZero(omega_in) \/ RIsZero(omega_out) THEN None
    ELSE IF RLt(omega_in, RZero) \/ RLt(omega_out, RZero) THEN NaN
    ELSE IF omega_in = omega_out THEN NaN
    ELSE LogMean(RSub(omega_in, omega_out), RDiv(omega_in, omega_out))

\* log(a) / (c * log(r)) with math.log: a domain error for an argument <= 0,
\* a division error when log(r) = 0.  theta_in and theta_out are the two
\* arguments whose logarithms make up log(r); theta_out = 0 stands for the
\* branch that takes log(theta_in) alone.
LogRatio(a, theta_in, theta_out, c) ==
    IF RLe(a, RZero) \/ RLe(theta_in, RZero) \/ RLt(theta_out, RZero)
    THEN Raise("ValueError")
    ELSE LET r == IF RIsZero(theta_out) THEN theta_in ELSE RDiv(theta_in, theta_out)
         IN IF r = ROne THEN Raise("ZeroDivisionError")
            ELSE IF a = ROne THEN Ok(RZero)
            ELSE Ok(LogQuot(a, r, c))

\* 1 + p * K / (1 - p), for p # 1
PersistenceOdds(p, K) ==
    RAdd(ROne, RDiv(RMul(p, Int2Rat(K)), RSub(ROne, p)))

multiplex_omega_estimate_from_parameters(theta_in, theta_out, p, K, T, omega_max) ==
    IF ~RLt(p, ROne) \/ theta_in = ROne THEN Ok(omega_max)
    ELSE LogRatio(PersistenceOdds(p, K), theta_in, theta_out, T)

temporal_multilevel_omega_estimate_from_parameters(theta_in, theta_out, p, K, omega_max) ==
    IF RLt(p, ROne)
    THEN LogRatio(PersistenceOdds(p, K), theta_in, theta_out, 2)
    ELSE Ok(omega_max)
(***************************************************************************)
(* The topology tag.  A tag is [name, interned]: its text, and whether the *)
(* string object is the interned one that the literals of the module       *)
(* denote.  "model is 'temporal'" compares objects, not texts.             *)
(***************************************************************************)
Is(model, literal) == model.interned /\ model.name = literal
Tag(name) == [name |-> name, interned |-> TRUE]

UnknownModel == Raise("ValueError: Model is not temporal, multilevel, or multiplex")

(***************************************************************************)
(* Persistence                                                             *)
(***************************************************************************)
\* sum(community[e.source] == community[e.target] for e in G_interlayer.es)
PersistingEdges(G_interlayer, community) ==
    Cardinality({i \in 1..ecount(G_interlayer) :
                    At(community, Source(G_interlayer, i))
                        = At(community, Target(G_interlayer, i))})

IntDiv(n, d) == IF d = 0 THEN Raise("ZeroDivisionError") ELSE Ok(Rat(n, d))

ordinal_persistence(G_interlayer, community, N, T) ==
    IntDiv(PersistingEdges(G_interlayer, community), N * (T - 1))

multilevel_persistence(G_interlayer, community, layer_vec, Nt, T) ==
    LET pers_per_layer ==
            [l \in 1..T |->
                Cardinality({i \in 1..ecount(G_interlayer) :
                    /\ At(layer_vec, Target(G_interlayer, i)) = l - 1
                    /\ At(community, Source(G_interlayer, i))
                          = At(community, Target(G_interlayer, i))})]
    IN IF \E l \in 1..T : Nt[l] = 0 THEN Raise("ZeroDivisionError")
       ELSE IF T - 1 = 0 THEN Raise("ZeroDivisionError")
       ELSE Ok(RDiv(RSum([l \in 1..T |-> Rat(pers_per_layer[l], Nt[l])]),
                    Int2Rat(T - 1)))

categorical_persistence(G_interlayer, community, N, T) ==
    IntDiv(PersistingEdges(G_interlayer, community), N * T * (T - 1))

\* Lines 228, 234 and 240: the errors for a parameter left as None.
TemporalConfigError ==
    Raise("ValueError: Parameters N and T cannot be None for temporal persistence calculation")
MultilevelConfigError ==
    Raise("ValueError: Parameters layer_vec, Nt, T cannot be None for multilevel persistence calculation")
MultiplexConfigError ==
    Raise("ValueError: Parameters N and T cannot be None for multiplex persistence calculation")

\* The test of line 227 without "or T is None": ordinal_persistence then
\* evaluates N * (T - 1) with T = None.
persistence_function_T_unchecked(model, G_interlayer, layer_vec, N, T, Nt, community) ==
    IF Is(model, "temporal")
    THEN IF N = Unset THEN TemporalConfigError
         ELSE IF T = Unset THEN Raise("TypeError")
         ELSE ordinal_persistence(G_interlayer, community, N[1], T[1])
    ELSE IF Is(model, "multilevel")
    THEN IF Nt = Unset \/ T = Unset \/ layer_vec = Unset THEN MultilevelConfigError
         ELSE multilevel_persistence(G_interlayer, community, layer_vec[1], Nt[1], T[1])
    ELSE IF Is(model, "multiplex")
    THEN IF N = Unset \/ T = Unset THEN MultiplexConfigError
         ELSE categorical_persistence(G_interlayer, community, N[1], T[1])
    ELSE UnknownModel

\* persistence_function_from_model followed by the call of the function it
\* returns: the persistence of community, or the error of the selection.
\* N, T, Nt and layer_vec are optional.
persistence_function_from_model(model, G_interlayer, layer_vec, N, T, Nt, community) ==
    IF Is(model, "temporal")
    THEN IF N = Unset \/ T = Unset THEN TemporalConfigError
         ELSE ordinal_persistence(G_interlayer, community, N[1], T[1])
    ELSE IF Is(model, "multilevel")
    THEN IF Nt = Unset \/ T = Unset \/ layer_vec = Unset THEN MultilevelConfigError
         ELSE multilevel_persistence(G_interlayer, community, layer_vec[1], Nt[1], T[1])
    ELSE IF Is(model, "multiplex")
    THEN IF N = Unset \/ T = Unset THEN MultiplexConfigError
         ELSE categorical_persistence(G_interlayer, community, N[1], T[1])
    ELSE UnknownModel

\* omega_function_from_model followed by the call of update_omega.  Line 203
\* tests the tag against 'multilayer'.
omega_function_from_model(model, omega_max, T, theta_in, theta_out, p, K) ==
    IF Is(model, "multiplex")
    THEN multiplex_omega_estimate_from_parameters(theta_in, theta_out, p, K, T, omega_max)
    ELSE IF Is(model, "temporal") \/ Is(model, "multilayer")
    THEN temporal_multilevel_omega_estimate_from_parameters(theta_in, theta_out, p, K,
                                                            omega_max)
    ELSE UnknownModel

\* Whether omega_function_from_model returns a function for the tag.
OmegaModelKnown(model) ==
    Is(model, "multiplex") \/ Is(model, "temporal") \/ Is(model, "multilayer")

(***************************************************************************)
(* estimate_multilayer_SBM_parameters                                      *)
(***************************************************************************)
\* The root of f that fsolve finds from x0 = 0.5.  For T = 2 f is linear,
\* f(x) = (1 - 1/K) x + 1/K - pers, and the root is exact; the model makes
\* no multiplex estimate for more layers.
fsolve_root(K, T, pers) ==
    RDiv(RSub(RMul(Int2Rat(K), pers), ROne), Int2Rat(K - 1))

\* (K * pers - 1) / (K - 1)
closed_form_p(K, pers) ==
    RDiv(RSub(RMul(Int2Rat(K), pers), ROne), Int2Rat(K - 1))

RMax(a, b) == IF RLt(a, b) THEN b ELSE a

\* Lines 56-57: missing weights default to 1.0 on every edge.
DefaultWeights(G) == IF G.has_weight THEN G ELSE SetWeight(G, Ones(ecount(G)))

LayerCount(layer_vec) == MaxOf(layer_vec) + 1

\* Lines 66-69: the total edge weight of layer t (t = 1 is layer 0).
total_layer_weight(G_intralayer, layer_vec, t) ==
    RSum([i \in 1..ecount(G_intralayer) |->
            WeightIf(G_intralayer, i, At(layer_vec, Source(G_intralayer, i)) = t - 1)])

\* Lines 71-74: the number of vertices of layer t.
layer_size(layer_vec, t) ==
    Cardinality({v \in 1..Len(layer_vec) : layer_vec[v] = t - 1})

\* Lines 79-82: the weight of the edges of layer t inside a community.
m_t_in(G_intralayer, layer_vec, community, t) ==
    RSum([i \in 1..ecount(G_intralayer) |->
            WeightIf(G_intralayer, i,
               /\ At(community, Source(G_intralayer, i))
                     = At(community, Target(G_intralayer, i))
               /\ At(layer_vec, Source(G_intralayer, i))
                     = At(layer_vec, Target(G_intralayer, i))
               /\ At(layer_vec, Source(G_intralayer, i)) = t - 1)])

\* Lines 84-88 with the second update left out: only the source end counts.
kappa_t_r_source_only(G_intralayer, layer_vec, community, t, r) ==
    RSum([i \in 1..ecount(G_intralayer) |->
            WeightIf(G_intralayer, i,
               /\ At(layer_vec, Source(G_intralayer, i)) = t - 1
               /\ At(community, Source(G_intralayer, i)) = r - 1)])

\* Lines 84-88: kappa_t_r_list[t][r], the weighted degree of community r in
\* layer t; an edge counts once for each of its ends, in the layer of its
\* source.
kappa_t_r(G_intralayer, layer_vec, community, t, r) ==
    RSum([i \in 1..ecount(G_intralayer) |->
            RAdd(WeightIf(G_intralayer, i,
                    /\ At(layer_vec, Source(G_intralayer, i)) = t - 1
                    /\ At(community, Source(G_intralayer, i)) = r - 1),
                 WeightIf(G_intralayer, i,
                    /\ At(layer_vec, Source(G_intralayer, i)) = t - 1
                    /\ At(community, Target(G_intralayer, i)) = r - 1))])

\* Line 115 without the max(..., 0).
persistence_to_p_unclamped(model, K, T, pers) ==
    IF ~(RLt(pers, ROne) /\ K > 1) THEN ROne
    ELSE IF Is(model, "multiplex") THEN fsolve_root(K, T, pers)
    ELSE closed_form_p(K, pers)

\* Lines 101-115: p from the persistence of the partition.
persistence_to_p(model, K, T, pers) ==
    IF ~(RLt(pers, ROne) /\ K > 1) THEN ROne
    ELSE IF Is(model, "multiplex") THEN fsolve_root(K, T, pers)
    ELSE RMax(closed_form_p(K, pers), RZero)

estimate_multilayer_SBM_parameters(G_intralayer0, G_interlayer, layer_vec, partition, model, N_arg, T_arg, Nt_arg, m_t_arg) ==
    LET G_intralayer == DefaultWeights(G_intralayer0)
        T == IF T_arg = Unset THEN LayerCount(layer_vec) ELSE T_arg[1]
        N == IF N_arg = Unset THEN G_intralayer.vcount \div T ELSE N_arg[1]
        m_t == IF m_t_arg = Unset
               THEN [t \in 1..T |-> total_layer_weight(G_intralayer, layer_vec, t)]
               ELSE m_t_arg[1]
        Nt == IF Nt_arg = Unset THEN [t \in 1..T |-> layer_size(layer_vec, t)]
              ELSE Nt_arg[1]
        K == partition.len
        community == partition.membership
        sum_kappa_t_sqr ==
            [t \in 1..T |->
                RSum([r \in 1..K |->
                        RSquare(kappa_t_r(G_intralayer, layer_vec, community, t, r))])]
    IN IF \E t \in 1..T : RIsZero(RTwice(m_t[t])) THEN Raise("ZeroDivisionError")
       ELSE
       LET expected == [t \in 1..T |-> RDiv(sum_kappa_t_sqr[t], RTwice(m_t[t]))]
           theta_in_denominator == RSum(expected)
           in_t == [t \in 1..T |-> m_t_in(G_intralayer, layer_vec, community, t)]
       IN IF RIsZero(theta_in_denominator) THEN Raise("ZeroDivisionError")
          ELSE
          LET theta_in == RDiv(RSum([t \in 1..T |-> RTwice(in_t[t])]),
                               theta_in_denominator)
              theta_out_numerator ==
                  RSum([t \in 1..T |-> RSub(RTwice(m_t[t]), RTwice(in_t[t]))])
              theta_out_denominator ==
                  RSum([t \in 1..T |-> RSub(RTwice(m_t[t]), expected[t])])
              theta_out == IF RIsZero(theta_out_denominator) THEN RZero
                           ELSE RDiv(theta_out_numerator, theta_out_denominator)
              pers == persistence_function_from_model(
                          model, G_interlayer, Given(layer_vec), Given(N), Given(T),
                          Given(Nt), community)
          IN IF ~Returned(pers) THEN pers
             ELSE Ok(<<theta_in, theta_out, persistence_to_p(model, K, T, pers.val), K>>)

(***************************************************************************)
(* gamma_estimate and gamma_omega_estimate                                 *)
(***************************************************************************)
DefaultOmegaMax == 1000

\* Lines 123-124: the default weights of gamma_estimate, one per vertex.
DefaultWeightsPerVertex(g) == IF g.has_weight THEN g ELSE SetWeight(g, Ones(g.vcount))

\* partition is a membership vector, converted to a partition object.
gamma_estimate(g, partition) ==
    LET sbm == estimate_singlelayer_SBM_parameters(
                   DefaultWeightsPerVertex(g),
                   louvain_part_with_membership(g, partition), Unset)
    IN IF ~Returned(sbm) THEN sbm
       ELSE Ok(gamma_estimate_from_parameters(sbm.val[1], sbm.val[2]))

gamma_omega_estimate(G_intralayer, G_inter, layers, memb, omega_max, tag, N_arg, T_arg, Nt_arg, m_t_arg) ==
    LET T == IF T_arg = Unset THEN LayerCount(layers) ELSE T_arg[1]
        partition == louvain_part_with_membership(G_intralayer, memb)
        sbm == estimate_multilayer_SBM_parameters(G_intralayer, G_inter, layers,
                   partition, tag, N_arg, Given(T), Nt_arg, m_t_arg)
    IN IF ~Returned(sbm) THEN sbm
       ELSE IF ~OmegaModelKnown(tag) THEN UnknownModel
       ELSE LET gamma == gamma_estimate_from_parameters(sbm.val[1], sbm.val[2])
                omega == omega_function_from_model(tag, omega_max, T, sbm.val[1],
                                                   sbm.val[2], sbm.val[3], sbm.val[4])
            IN IF ~Returned(omega) THEN omega
               ELSE Ok(<<gamma, omega.val>>)

\* Graph.to_directed(): every undirected edge becomes the two opposite
\* directed edges, each with the attributes of the edge it comes from.
to_directed(g) ==
    IF g.directed THEN g
    ELSE [g EXCEPT !.directed = TRUE,
                   !.es = g.es \o [i \in 1..ecount(g) |-> <<g.es[i][2], g.es[i][1]>>],
                   !.weight = g.weight \o g.weight]
(***************************************************************************)
(* The networks the estimators are called on                               *)
(***************************************************************************)
MaxVertices == 4
MaxEdges == 2
MaxWeight == 2
MaxLayerEdges == 3

\* N vertices in each of T layers, N * T vertices in all.
Shapes == {s \in (1..MaxVertices) \X (1..MaxVertices) : s[1] * s[2] <= MaxVertices}

\* Membership vectors that use the labels 0..K-1, numbered by first use.
MembershipsOf(n) ==
    {m \in [1..n -> 0..(n - 1)] :
        /\ m[1] = 0
        /\ \A i \in 2..n : \E j \in 1..(i - 1) : m[i] <= m[j] + 1}

\* The interlayer graph of N vertices per layer: every vertex is joined to
\* its copy in the next layer (temporal, multilevel) or, for the multiplex
\* topology, to its copy in every other layer.
InterlayerEdges(N, T, tag) ==
    IF tag.name = "multiplex"
    THEN {<<v, u>> \in (0..(N * T - 1)) \X (0..(N * T - 1)) : v # u /\ v % N = u % N}
    ELSE {<<v, v + N>> : v \in 0..(N * (T - 1) - 1)}

RECURSIVE SetToSeq(_)
SetToSeq(S) ==
    IF S = {} THEN <<>>
    ELSE LET x == CHOOSE y \in S : TRUE IN <<x>> \o SetToSeq(S \ {x})

InterlayerGraph(N, T, tag) ==
    [vcount |-> N * T, directed |-> TRUE, es |-> SetToSeq(InterlayerEdges(N, T, tag)),
     has_weight |-> FALSE, weight |-> <<>>]

Tags ==
    {Tag(n) : n \in {"temporal", "multilevel", "multiplex", "multilayer", "other"}}
        \cup {[name |-> "temporal", interned |-> FALSE]}

GraphInitWith(shapes, tags) ==
    /\ \E s \in shapes, tag \in tags, hw \in BOOLEAN :
          /\ net_G = [vcount |-> s[1] * s[2], directed |-> FALSE, es |-> <<>>,
                      has_weight |-> hw, weight |-> <<>>]
          /\ net_G_interlayer = InterlayerGraph(s[1], s[2], tag)
          /\ net_layer_vec = [v \in 1..(s[1] * s[2]) |-> (v - 1) \div s[1]]
          /\ net_membership \in MembershipsOf(s[1] * s[2])
          /\ net_model = tag
    /\ call = ""
    /\ ret = Pending
    /\ ret_undirected = Pending

GraphIdle == GraphInitWith({<<1, 1>>}, {Tag("temporal")}) /\ ~net_G.has_weight

LexLess(a, b) ==
    \/ a[1] < b[1]
    \/ a[1] = b[1] /\ a[2] < b[2]
    \/ a[1] = b[1] /\ a[2] = b[2] /\ a[3] < b[3]

EdgeKey(g, i) == <<g.es[i][1], g.es[i][2], IF g.has_weight THEN g.weight[i][1] ELSE 1>>

\* The caller adds an edge inside a layer; edges are listed in increasing order.
AddEdgeUpTo(limit) ==
    /\ call = ""
    /\ ecount(net_G) < limit
    /\ \E u, v \in 0..(net_G.vcount - 1), w \in 1..MaxWeight :
          /\ u < v
          /\ At(net_layer_vec, u) = At(net_layer_vec, v)
          /\ ~net_G.has_weight => w = 1
          /\ ecount(net_G) > 0 => ~LexLess(<<u, v, w>>, EdgeKey(net_G, ecount(net_G)))
          /\ net_G' = [net_G EXCEPT
                          !.es = Append(@, <<u, v>>),
                          !.weight = IF net_G.has_weight
                                     THEN Append(@, Int2Rat(w)) ELSE @]
    /\ UNCHANGED <<net_G_interlayer, net_layer_vec, net_membership, net_model,
                   call, ret, ret_undirected, notGraphVars>>

AddEdge == AddEdgeUpTo(MaxEdges)

\* A temporal network of three layers needs an edge in each of them.
AddLayerEdge == AddEdgeUpTo(MaxLayerEdges)

CallEstimateSinglelayer ==
    /\ call = ""
    /\ call' = "estimate_singlelayer_SBM_parameters"
    /\ ret' = estimate_singlelayer_SBM_parameters(
                  net_G, louvain_part_with_membership(net_G, net_membership), Unset)
    /\ UNCHANGED <<net_G, net_G_interlayer, net_layer_vec, net_membership, net_model,
                   ret_undirected, notGraphVars>>

CallGammaEstimate ==
    /\ call = ""
    /\ call' = "gamma_estimate"
    /\ ret' = gamma_estimate(net_G, net_membership)
    /\ net_G' = DefaultWeightsPerVertex(net_G)
    /\ UNCHANGED <<net_G_interlayer, net_layer_vec, net_membership, net_model,
                   ret_undirected, notGraphVars>>

\* The model computes the multiplex persistence inversion for two layers only.
Estimable == Is(net_model, "multiplex") => LayerCount(net_layer_vec) <= 2

CallEstimateMultilayer ==
    /\ call = ""
    /\ Estimable
    /\ call' = "estimate_multilayer_SBM_parameters"
    /\ ret' = estimate_multilayer_SBM_parameters(
                  net_G, net_G_interlayer, net_layer_vec,
                  louvain_part_with_membership(net_G, net_membership), net_model,
                  Unset, Unset, Unset, Unset)
    /\ net_G' = DefaultWeights(net_G)
    /\ UNCHANGED <<net_G_interlayer, net_layer_vec, net_membership, net_model,
                   ret_undirected, notGraphVars>>

CallGammaOmegaEstimate ==
    /\ call \in {"", "to_directed"}
    /\ Estimable
    /\ call' = "gamma_omega_estimate"
    /\ ret' = gamma_omega_estimate(net_G, net_G_interlayer, net_layer_vec, net_membership,
                                   Int2Rat(DefaultOmegaMax), net_model,
                                   Unset, Unset, Unset, Unset)
    /\ net_G' = DefaultWeights(net_G)
    /\ UNCHANGED <<net_G_interlayer, net_layer_vec, net_membership, net_model,
                   ret_undirected, notGraphVars>>

\* G_intralayer.to_directed() between two calls of gamma_omega_estimate.
ToDirected ==
    /\ call = "gamma_omega_estimate"
    /\ ~net_G.directed
    /\ net_G' = to_directed(net_G)
    /\ call' = "to_directed"
    /\ ret_undirected' = ret
    /\ ret' = Pending
    /\ UNCHANGED <<net_G_interlayer, net_layer_vec, net_membership, net_model,
                   notGraphVars>>

(***************************************************************************)
(* Calls that pass some of the optional arguments N, T, Nt and layer_vec   *)
(***************************************************************************)
\* The values a caller who passes an optional argument passes for it.
ActualArgs ==
    [N |-> Given(net_G.vcount \div LayerCount(net_layer_vec)),
     T |-> Given(LayerCount(net_layer_vec)),
     Nt |-> Given([t \in 1..LayerCount(net_layer_vec) |-> layer_size(net_layer_vec, t)]),
     layer_vec |-> Given(net_layer_vec)]

\* Every way of leaving some of the optional arguments as None.
ArgChoices ==
    {a \in [N : {Unset, ActualArgs.N}, T : {Unset, ActualArgs.T},
            Nt : {Unset, ActualArgs.Nt}, layer_vec : {Unset, ActualArgs.layer_vec}] : TRUE}

\* persistence_function_from_model(model, G_interlayer, layer_vec=.., N=..,
\* T=.., Nt=..) and the call of the function it returns.
CallPersistenceFunction ==
    /\ call = ""
    /\ \E a \in ArgChoices :
          /\ call_args' = a
          /\ ret' = persistence_function_from_model(
                        net_model, net_G_interlayer, a.layer_vec, a.N, a.T, a.Nt,
                        net_membership)
    /\ call' = "persistence_function_from_model"
    /\ UNCHANGED <<net_G, net_G_interlayer, net_layer_vec, net_membership, net_model,
                   ret_undirected, filterVars, domainVars, paramVars, pruneVars>>

\* estimate_multilayer_SBM_parameters with some of N, T and Nt passed;
\* layer_vec is a required argument of it.
CallEstimateMultilayerWith ==
    /\ call = ""
    /\ Estimable
    /\ \E a \in {b \in ArgChoices : b.layer_vec # Unset} :
          /\ call_args' = a
          /\ ret' = estimate_multilayer_SBM_parameters(
                        net_G, net_G_interlayer, net_layer_vec,
                        louvain_part_with_membership(net_G, net_membership), net_model,
                        a.N, a.T, a.Nt, Unset)
    /\ call' = "estimate_multilayer_SBM_parameters"
    /\ net_G' = DefaultWeights(net_G)
    /\ UNCHANGED <<net_G_interlayer, net_layer_vec, net_membership, net_model,
                   ret_undirected, filterVars, domainVars, paramVars, pruneVars>>

\* gamma_omega_estimate with some of N, T and Nt passed.
CallGammaOmegaEstimateWith ==
    /\ call = ""
    /\ Estimable
    /\ \E a \in {b \in ArgChoices : b.layer_vec # Unset} :
          /\ call_args' = a
          /\ ret' = gamma_omega_estimate(
                        net_G, net_G_interlayer, net_layer_vec, net_membership,
                        Int2Rat(DefaultOmegaMax), net_model, a.N, a.T, a.Nt, Unset)
    /\ call' = "gamma_omega_estimate"
    /\ net_G' = DefaultWeights(net_G)
    /\ UNCHANGED <<net_G_interlayer, net_layer_vec, net_membership, net_model,
                   ret_undirected, filterVars, domainVars, paramVars, pruneVars>>

(***************************************************************************)
(* The parameter formulas on their own                                     *)
(***************************************************************************)
MaxTheta == 2
MaxK == 3
MaxT == 3

Fractions == {Rat(i, j) : i \in 0..MaxTheta, j \in 1..MaxTheta}
Probabilities == {q \in Fractions : RLe(q, ROne)}

ParamInit ==
    /\ params \in [theta_in : Fractions, theta_out : Fractions, p : Probabilities,
                   K : 1..MaxK, T : 2..MaxT,
                   omega_max : {ROne, Int2Rat(DefaultOmegaMax)}]
    /\ estimate = Pending

ParamIdle ==
    /\ params = [theta_in |-> ROne, theta_out |-> ROne, p |-> ROne, K |-> 1, T |-> 2,
                 omega_max |-> Int2Rat(DefaultOmegaMax)]
    /\ estimate = Pending

CallGammaFromParameters ==
    /\ estimate = Pending
    /\ estimate' = [fn |-> "gamma_estimate_from_parameters",
                    out |-> Ok(gamma_estimate_from_parameters(params.theta_in,
                                                              params.theta_out))]
    /\ UNCHANGED <<params, notParamVars>>

CallTemporalOmega ==
    /\ estimate = Pending
    /\ estimate' = [fn |-> "temporal_multilevel_omega_estimate_from_parameters",
                    out |-> temporal_multilevel_omega_estimate_from_parameters(
                                params.theta_in, params.theta_out, params.p, params.K,
                                params.omega_max)]
    /\ UNCHANGED <<params, notParamVars>>

CallMultiplexOmega ==
    /\ estimate = Pending
    /\ estimate' = [fn |-> "multiplex_omega_estimate_from_parameters",
                    out |-> multiplex_omega_estimate_from_parameters(
                                params.theta_in, params.theta_out, params.p, params.K,
                                params.T, params.omega_max)]
    /\ UNCHANGED <<params, notParamVars>>

(***************************************************************************)
(* prune_to_stable_partitions, statement by statement.  parts is a         *)
(* collection of membership vectors (the else branch of lines 357-362).    *)
(* prune_log records the calls to CHAMP_2D, gamma_estimate and             *)
(* gamma_estimates_to_stable_partitions in the order they are made.        *)
(***************************************************************************)
MaxParts == 2

\* louvain_utilities.sorted_tuple: the communities renumbered in the order
\* of their first appearance in the vector.
sorted_tuple(t) ==
    LET first(x) == CHOOSE j \in 1..Len(t) :
                        t[j] = x /\ \A k \in 1..(j - 1) : t[k] # x
    IN [i \in 1..Len(t) |-> Cardinality({t[k] : k \in 1..(first(t[i]) - 1)})]

\* partition_utilities.num_communities: the number of distinct labels.
num_communities(part) == Cardinality({part[i] : i \in 1..Len(part)})

\* The test of line 367 left out.
no_candidates_unchecked(parts) == FALSE

\* Line 367: len(parts) == 0
no_candidates(parts) == Cardinality(parts) = 0

\* champ_utilities.CHAMP_2D: the ranges of dominance, a list of
\* (gamma_start, gamma_end, part).  Some of the parts dominate, each on one
\* interval; the intervals follow one another from gamma_start to gamma_end.
\* Which parts, and where the intervals meet, is the range finder's choice.
CHAMP_2D(G, parts, gamma_start, gamma_end) ==
    IF parts = {} THEN {<<>>}
    ELSE LET Ranges == {r \in [gamma_start : GammaValues, gamma_end : GammaValues,
                               membership : parts] :
                           RLt(r.gamma_start, r.gamma_end)}
         IN {rs \in UNION {[1..n -> Ranges] : n \in 1..Cardinality(parts)} :
                /\ rs[1].gamma_start = gamma_start
                /\ rs[Len(rs)].gamma_end = gamma_end
                /\ \A i \in 1..(Len(rs) - 1) : rs[i].gamma_end = rs[i + 1].gamma_start
                /\ \A i, j \in 1..Len(rs) : i # j => rs[i].membership # rs[j].membership}

\* Lines 280-286: the list comprehension of ranges_to_gamma_estimates, which
\* calls gamma_estimate range by range and stops at the first call that
\* raises.  The outcome carries the graph, whose weights the first call sets.
RECURSIVE ranges_to_gamma_estimates(_, _)
ranges_to_gamma_estimates(G, ranges) ==
    IF ranges = <<>> THEN [out |-> Ok(<<>>), G |-> G, calls |-> 0]
    ELSE LET r == Head(ranges)
             est == gamma_estimate(G, r.membership)
             G1 == DefaultWeightsPerVertex(G)
         IN IF ~Returned(est) THEN [out |-> est, G |-> G1, calls |-> 1]
            ELSE LET rest == ranges_to_gamma_estimates(G1, Tail(ranges))
                     entry == [gamma_start |-> r.gamma_start, gamma_end |-> r.gamma_end,
                               membership |-> r.membership, gamma_estimate |-> est.val]
                 IN [out |-> IF Returned(rest.out) THEN Ok(<<entry>> \o rest.out.val)
                             ELSE rest.out,
                     G |-> rest.G, calls |-> 1 + rest.calls]

\* The estimate (a - b) / (log a - log b) is kept as <<d, r>> with d = a - b
\* and r = a / b.  The logarithm is not computed: the estimate lies strictly
\* between sqrt(a * b) and (a + b) / 2, and a comparison with x that these
\* two bounds do not decide can come out either way.
LogMeanBounds(g) ==
    LET d == <<g[1], g[2]>>
        r == <<g[3], g[4]>>
        b == RDiv(d, RSub(r, ROne))
        a == RMul(r, b)
    IN [product |-> RMul(a, b), mean |-> RDiv(RAdd(a, b), Int2Rat(2))]

\* The possible values of x <= g
LeLogMean(x, g) ==
    IF RLe(x, RZero) \/ RLe(RSquare(x), LogMeanBounds(g).product) THEN {TRUE}
    ELSE IF RLe(LogMeanBounds(g).mean, x) THEN {FALSE}
    ELSE BOOLEAN

\* The possible values of g <= y
LogMeanLe(g, y) ==
    IF RLe(LogMeanBounds(g).mean, y) THEN {TRUE}
    ELSE IF RLe(y, RZero) \/ RLe(RSquare(y), LogMeanBounds(g).product) THEN {FALSE}
    ELSE BOOLEAN

\* The possible values of the condition of line 294 for one entry.
StableConds(e) ==
    IF IsLogMean(e.gamma_estimate)
    THEN {lo /\ hi : lo \in LeLogMean(e.gamma_start, e.gamma_estimate),
                     hi \in LogMeanLe(e.gamma_estimate, e.gamma_end)}
    ELSE {StableCond(e)}

\* The possible outcomes of gamma_estimates_to_stable_partitions (lines
\* 289-294) on entries whose estimates may be logarithmic means.
RECURSIVE stable_partitions_of(_)
stable_partitions_of(ges) ==
    IF ges = <<>> THEN {<<>>}
    ELSE {(IF keep THEN <<Head(ges).membership>> ELSE <<>>) \o rest :
             keep \in StableConds(Head(ges)), rest \in stable_partitions_of(Tail(ges))}

\* The graphs the pipeline is run on: three vertices with no edge, a path
\* without weights, a path with weights 1 and 2, and a triangle.
PruneGraphs ==
    {[vcount |-> 3, directed |-> FALSE, es |-> <<>>, has_weight |-> FALSE,
      weight |-> <<>>],
     [vcount |-> 3, directed |-> FALSE, es |-> <<<<0, 1>>, <<1, 2>>>>,
      has_weight |-> FALSE, weight |-> <<>>],
     [vcount |-> 3, directed |-> FALSE, es |-> <<<<0, 1>>, <<1, 2>>>>,
      has_weight |-> TRUE, weight |-> <<Int2Rat(1), Int2Rat(2)>>],
     [vcount |-> 3, directed |-> FALSE, es |-> <<<<0, 1>>, <<0, 2>>, <<1, 2>>>>,
      has_weight |-> FALSE, weight |-> <<>>]}

\* A membership vector with its labels in reverse order: the same partition
\* under another labelling.
relabelled(part) == [i \in 1..Len(part) |-> MaxOf(part) - part[i]]

\* The labellings a community-detection heuristic hands in.
RawParts(n) == MembershipsOf(n) \cup {relabelled(part) : part \in MembershipsOf(n)}

PruneGraphInit ==
    /\ net_G \in PruneGraphs
    /\ net_G_interlayer = InterlayerGraph(3, 1, Tag("temporal"))
    /\ net_layer_vec = <<0, 0, 0>>
    /\ net_membership = <<0, 0, 0>>
    /\ net_model = Tag("temporal")
    /\ call = ""
    /\ ret = Pending
    /\ ret_undirected = Pending

\* No optional argument is passed.
ConfigIdle == call_args = [N |-> Unset, T |-> Unset, Nt |-> Unset, layer_vec |-> Unset]

PruneIdle ==
    /\ prune_args = [parts |-> <<>>, gamma_start |-> RZero,
                     gamma_end |-> Int2Rat(MaxGamma), restrict_num_communities |-> Unset]
    /\ prune_pc = "idle"
    /\ prune_parts = {}
    /\ prune_ranges = <<>>
    /\ prune_estimates = <<>>
    /\ prune_log = <<>>
    /\ prune_ret = Pending

\* The caller collects candidate partitions, labelled as the heuristic that
\* found them labelled them.
AddPart ==
    /\ prune_pc = "idle"
    /\ Len(prune_args.parts) < MaxParts
    /\ \E part \in RawParts(net_G.vcount) :
          prune_args' = [prune_args EXCEPT !.parts = Append(@, part)]
    /\ UNCHANGED <<prune_pc, prune_parts, prune_ranges, prune_estimates, prune_log,
                   prune_ret, filterVars, domainVars, graphVars, paramVars, configVars>>

\* The call, and lines 357-362: parts = {sorted_tuple(part) for part in parts}
PruneCanonicalize ==
    /\ prune_pc = "idle"
    /\ \E restrict \in {Unset} \cup {Given(k) : k \in 1..net_G.vcount} :
          prune_args' = [prune_args EXCEPT !.restrict_num_communities = restrict]
    /\ prune_parts' =
          {sorted_tuple(prune_args.parts[i]) : i \in 1..Len(prune_args.parts)}
    /\ prune_pc' = "restrict"
    /\ UNCHANGED <<prune_ranges, prune_estimates, prune_log, prune_ret,
                   filterVars, domainVars, graphVars, paramVars, configVars>>

\* Lines 364-365: keep the parts of restrict_num_communities communities.
PruneRestrict ==
    /\ prune_pc = "restrict"
    /\ prune_parts' =
          IF prune_args.restrict_num_communities = Unset THEN prune_parts
          ELSE {part \in prune_parts :
                   num_communities(part) = prune_args.restrict_num_communities[1]}
    /\ prune_pc' = "check"
    /\ UNCHANGED <<prune_args, prune_ranges, prune_estimates, prune_log, prune_ret,
                   filterVars, domainVars, graphVars, paramVars, configVars>>

\* Lines 367-368: return parts, the empty set.
PruneReturnEmpty ==
    /\ prune_pc = "check"
    /\ no_candidates(prune_parts)
    /\ prune_ret' = Ok([type |-> "set", items |-> <<>>])
    /\ prune_pc' = "done"
    /\ UNCHANGED <<prune_args, prune_parts, prune_ranges, prune_estimates, prune_log,
                   filterVars, domainVars, graphVars, paramVars, configVars>>

\* Line 370: ranges = CHAMP_2D(G, parts, gamma_start, gamma_end)
PruneCHAMP ==
    /\ prune_pc = "check"
    /\ ~no_candidates(prune_parts)
    /\ prune_log' = Append(prune_log, [fn |-> "CHAMP_2D", parts |-> prune_parts])
    /\ prune_ranges' \in CHAMP_2D(net_G, prune_parts, prune_args.gamma_start,
                                  prune_args.gamma_end)
    /\ prune_pc' = "estimate"
    /\ UNCHANGED <<prune_args, prune_parts, prune_estimates, prune_ret,
                   filterVars, domainVars, graphVars, paramVars, configVars>>

\* Line 371: gamma_estimates = ranges_to_gamma_estimates(G, ranges)
PruneEstimate ==
    /\ prune_pc = "estimate"
    /\ LET got == ranges_to_gamma_estimates(net_G, prune_ranges)
       IN /\ prune_log' =
                prune_log \o [i \in 1..got.calls |->
                                [fn |-> "gamma_estimate",
                                 parts |-> {prune_ranges[i].membership}]]
          /\ net_G' = got.G
          /\ IF Returned(got.out)
             THEN /\ prune_estimates' = got.out.val
                  /\ prune_pc' = "filter"
                  /\ UNCHANGED prune_ret
             ELSE /\ prune_ret' = got.out
                  /\ prune_pc' = "done"
                  /\ UNCHANGED prune_estimates
    /\ UNCHANGED <<prune_args, prune_parts, prune_ranges,
                   net_G_interlayer, net_layer_vec, net_membership, net_model,
                   call, ret, ret_undirected, filterVars, domainVars, paramVars,
                   configVars>>

\* Lines 372-373: return gamma_estimates_to_stable_partitions(gamma_estimates)
PruneFilter ==
    /\ prune_pc = "filter"
    /\ prune_log' =
          Append(prune_log,
                 [fn |-> "gamma_estimates_to_stable_partitions",
                  parts |-> {prune_estimates[i].membership :
                                i \in 1..Len(prune_estimates)}])
    /\ \E stable \in stable_partitions_of(prune_estimates) :
          prune_ret' = Ok([type |-> "list", items |-> stable])
    /\ prune_pc' = "done"
    /\ UNCHANGED <<prune_args, prune_parts, prune_ranges, prune_estimates,
                   filterVars, domainVars, graphVars, paramVars, configVars>>

(***************************************************************************)
(* Specifications                                                          *)
(***************************************************************************)
InitFilter == FilterInit /\ DomainInit /\ PruneIdle /\ ConfigIdle /\ GraphIdle /\ ParamIdle
SpecFilter == InitFilter /\ [][FilterNext]_vars

InitDomain == FilterInit /\ DomainInit /\ PruneIdle /\ ConfigIdle /\ GraphIdle /\ ParamIdle
SpecDomain == InitDomain /\ [][DomainNext]_vars

\* Single-layer graphs and the single-layer estimators.
InitSingle ==
    /\ FilterInit /\ DomainInit /\ ParamIdle /\ PruneIdle /\ ConfigIdle
    /\ GraphInitWith({s \in Shapes : s[2] = 1}, {Tag("temporal")})
SingleNext == AddEdge \/ CallEstimateSinglelayer \/ CallGammaEstimate
SpecSingle == InitSingle /\ [][SingleNext]_vars

\* Multilayer networks, every tag, and the multilayer estimators.
InitMulti == FilterInit /\ DomainInit /\ PruneIdle /\ ConfigIdle /\ ParamIdle /\ GraphInitWith(Shapes, Tags)
MultiNext == AddEdge \/ CallEstimateMultilayer \/ CallGammaOmegaEstimate \/ ToDirected
SpecMulti == InitMulti /\ [][MultiNext]_vars

\* Temporal networks, estimated before and after to_directed().
\* At least two layers; two nodes in each of three layers is the smallest
\* network on which a partition persists in part (0 < p < 1).
TemporalShapes == {s \in Shapes : s[2] >= 2} \cup {<<2, 3>>}

InitDirected ==
    /\ FilterInit /\ DomainInit /\ ParamIdle /\ PruneIdle /\ ConfigIdle
    /\ GraphInitWith(TemporalShapes, {Tag("temporal")})
DirectedNext == AddLayerEdge \/ CallGammaOmegaEstimate \/ ToDirected
SpecDirected == InitDirected /\ [][DirectedNext]_vars

InitParams == FilterInit /\ DomainInit /\ PruneIdle /\ ConfigIdle /\ GraphIdle /\ ParamInit
ParamNext == CallGammaFromParameters \/ CallTemporalOmega \/ CallMultiplexOmega
SpecParams == InitParams /\ [][ParamNext]_vars

\* The pruning pipeline on the graphs of three vertices.
InitPrune == FilterInit /\ DomainInit /\ ParamIdle /\ PruneIdle /\ ConfigIdle /\ PruneGraphInit
PruneNext ==
    \/ AddPart
    \/ PruneCanonicalize
    \/ PruneRestrict
    \/ PruneReturnEmpty
    \/ PruneCHAMP
    \/ PruneEstimate
    \/ PruneFilter
SpecPrune == InitPrune /\ [][PruneNext]_vars

\* Networks of at least two layers, the three documented tags and an
\* undocumented one, and calls that leave optional arguments as None.
ConfigTags ==
    {Tag(n) : n \in {"temporal", "multilevel", "multiplex", "other"}}
        \cup {[name |-> "temporal", interned |-> FALSE]}
InitConfig ==
    /\ FilterInit /\ DomainInit /\ ParamIdle /\ PruneIdle /\ ConfigIdle
    /\ GraphInitWith({s \in Shapes : s[2] >= 2}, ConfigTags)
ConfigNext ==
    \/ AddEdge
    \/ CallPersistenceFunction
    \/ CallEstimateMultilayerWith
    \/ CallGammaOmegaEstimateWith
SpecConfig == InitConfig /\ [][ConfigNext]_vars

(***************************************************************************)
(* Claims about the estimators                                             *)
(***************************************************************************)
\* The parameters estimate_multilayer_SBM_parameters finds for the network.
CurrentMultilayerParameters ==
    estimate_multilayer_SBM_parameters(
        net_G, net_G_interlayer, net_layer_vec,
        louvain_part_with_membership(net_G, net_membership), net_model,
        Unset, Unset, Unset, Unset)

AcceptedByCode == Is(net_model, "temporal") \/ Is(net_model, "multiplex")

\* C3: whenever gamma_omega_estimate has been called with a tag the dispatch
\* accepts, on a network and partition whose estimated theta_in or theta_out
\* is zero, the call has returned (it has not raised) and the gamma it returned
\* is None.
C3_DegenerateIsNone ==
    (/\ call = "gamma_omega_estimate"
     /\ AcceptedByCode
     /\ Returned(CurrentMultilayerParameters)
     /\ \/ RIsZero(CurrentMultilayerParameters.val[1])
        \/ RIsZero(CurrentMultilayerParameters.val[2]))
    => /\ Returned(ret)
       /\ ret.val[1] = None

\* C4: with every vertex in one community, on a graph that carries edge
\* weights, estimate_singlelayer_SBM_parameters returns omega_out = 0 and
\* gamma_estimate returns None; neither raises.
C4_SingleCommunity ==
    (/\ call \in {"estimate_singlelayer_SBM_parameters", "gamma_estimate"}
     /\ net_G.has_weight
     /\ \A v \in 1..Len(net_membership) : net_membership[v] = 0)
    => /\ Returned(ret)
       /\ call = "estimate_singlelayer_SBM_parameters" => ret.val[2] = RZero
       /\ call = "gamma_estimate" => ret.val = None

KnownTagNames == {"temporal", "multilevel", "multiplex"}

\* C5: when gamma_omega_estimate has been called with a literal tag and the
\* parameter estimation itself did not fail, the call ends with the
\* unknown-model error exactly when the tag is none of temporal, multilevel
\* and multiplex; otherwise it returns a pair whose omega, when it is a
\* logarithm quotient, has divisor 2 (temporal, multilevel) or T (multiplex).
C5_TagDispatch ==
    (/\ call = "gamma_omega_estimate"
     /\ net_model.interned
     /\ ret.exc \notin {"ZeroDivisionError", "ValueError"})
    => /\ ret = UnknownModel <=> net_model.name \notin KnownTagNames
       /\ (Returned(ret) /\ IsLogQuot(ret.val[2]))
            => ret.val[2][5] = IF net_model.name = "multiplex"
                               THEN LayerCount(net_layer_vec) ELSE 2

\* r^k >= a for some k <= n, where r > 1: acc runs through the powers of r.
RECURSIVE PowAtLeast(_, _, _, _)
PowAtLeast(r, n, a, acc) ==
    IF RLe(a, acc) THEN TRUE
    ELSE IF n = 0 THEN FALSE
    ELSE PowAtLeast(r, n - 1, a, RMul(acc, r))

\* 0 <= w <= omega_max for an omega estimate w; omega_max is a whole number.
\* A quotient log(a) / (c * log(r)) with a > 1 is negative when r < 1 and is
\* at most omega_max when a <= r^(c * omega_max).
OmegaInRange(w, omega_max) ==
    IF IsLogQuot(w)
    THEN /\ RLt(ROne, <<w[3], w[4]>>)
         /\ PowAtLeast(<<w[3], w[4]>>, w[5] * omega_max[1], <<w[1], w[2]>>, ROne)
    ELSE RLe(RZero, w) /\ RLe(w, omega_max)

\* (a - b) / (log a - log b) for positive a # b is a positive number.
GammaInRange(g) == g = None \/ IsLogMean(g) \/ (IsRat(g) /\ RLe(RZero, g))

\* C7: every value a parameter formula returns is in range: the gamma
\* estimate is None or a non-negative number, and the omega estimate of the
\* temporal/multilevel and of the multiplex formula lies in [0, omega_max].
C7_EstimateRange ==
    (estimate # Pending /\ Returned(estimate.out))
    => IF estimate.fn = "gamma_estimate_from_parameters"
       THEN GammaInRange(estimate.out.val)
       ELSE OmegaInRange(estimate.out.val, params.omega_max)

\* C9: estimate_multilayer_SBM_parameters, called with a partition of more
\* than one community, never ends in a division error.
C9_DivisionGuards ==
    (/\ call = "estimate_multilayer_SBM_parameters"
     /\ MaxOf(net_membership) >= 1)
    => ret.exc # "ZeroDivisionError"

\* C10: estimate_singlelayer_SBM_parameters, called on a graph whose edges
\* carry no weight attribute, gives the result it gives on the same graph with
\* weight 1.0 on every edge.
C10_DefaultWeights ==
    (/\ call = "estimate_singlelayer_SBM_parameters"
     /\ ~net_G.has_weight)
    => ret = estimate_singlelayer_SBM_parameters(
                 SetWeight(net_G, Ones(ecount(net_G))),
                 louvain_part_with_membership(net_G, net_membership), Unset)

\* The undirected graph to_directed() was applied to: the first half of the
\* edges of the directed graph.
before_to_directed(g) ==
    [g EXCEPT !.directed = FALSE,
              !.es = SubSeq(g.es, 1, ecount(g) \div 2),
              !.weight = SubSeq(g.weight, 1, ecount(g) \div 2)]

MultilayerParametersOf(g) ==
    estimate_multilayer_SBM_parameters(
        g, net_G_interlayer, net_layer_vec,
        louvain_part_with_membership(g, net_membership), net_model,
        Unset, Unset, Unset, Unset)

\* C8: when gamma_omega_estimate has been called on a temporal network, the
\* intralayer graph has then been made directed and gamma_omega_estimate has
\* been called again, the second call ends as the first did (the same
\* (gamma, omega) pair), and theta_in, theta_out and p estimated on the
\* directed graph are those estimated on the undirected one.
C8_DirectednessInvariance ==
    (/\ call = "gamma_omega_estimate"
     /\ net_G.directed
     /\ ret_undirected # Pending)
    => /\ ret = ret_undirected
       /\ MultilayerParametersOf(net_G) = MultilayerParametersOf(before_to_directed(net_G))

\* Both calls returned the same pair, a gamma that is a proper logarithmic
\* mean and an omega that is a proper quotient of logarithms (0 < p < 1), on
\* a directed graph that has edges inside and between communities.
C8_Witness ==
    /\ call = "gamma_omega_estimate"
    /\ net_G.directed
    /\ Returned(ret_undirected)
    /\ Returned(ret)
    /\ IsLogMean(ret.val[1])
    /\ IsLogQuot(ret.val[2])
    /\ ret.val = ret_undirected.val

(***************************************************************************)
(* Claims about the pruning pipeline                                       *)
(***************************************************************************)
\* The candidates of the call: the canonical tuples of the partitions handed
\* in, restricted to restrict_num_communities communities when that is given.
PruneCandidates ==
    LET canonical == {sorted_tuple(prune_args.parts[i]) : i \in 1..Len(prune_args.parts)}
    IN IF prune_args.restrict_num_communities = Unset THEN canonical
       ELSE {part \in canonical :
                num_communities(part) = prune_args.restrict_num_communities[1]}

ChampCalls == {i \in 1..Len(prune_log) : prune_log[i].fn = "CHAMP_2D"}

\* C6: in prune_to_stable_partitions the candidates are deduplicated by
\* canonical tuple and restricted to the requested community count before
\* anything else is called; when no candidate remains the function returns
\* the empty set and CHAMP_2D is never called; otherwise CHAMP_2D is called
\* exactly once, on the deduplicated and restricted set, and every gamma
\* estimate and the stability test come after that call.
C6_PruneOrdering ==
    /\ Cardinality(ChampCalls) <= 1
    /\ \A i \in ChampCalls :
          /\ i = 1
          /\ prune_log[i].parts = PruneCandidates
          /\ PruneCandidates # {}
    /\ \A i \in (1..Len(prune_log)) \ ChampCalls : \E j \in ChampCalls : j < i
    /\ prune_pc = "check" => prune_parts = PruneCandidates /\ prune_log = <<>>
    /\ prune_pc \in {"estimate", "filter"} => ChampCalls = {1}
    /\ prune_pc = "done" =>
          IF PruneCandidates = {}
          THEN /\ prune_log = <<>>
               /\ prune_ret = Ok([type |-> "set", items |-> <<>>])
          ELSE ChampCalls = {1}

\* A call that was handed two labellings of one partition and a community
\* count, called CHAMP_2D once on the single candidate, estimated its gamma
\* and returned it as stable.
C6_Witness ==
    /\ prune_pc = "done"
    /\ Len(prune_args.parts) = 2
    /\ prune_args.parts[1] # prune_args.parts[2]
    /\ Cardinality(PruneCandidates) = 1
    /\ prune_args.restrict_num_communities # Unset
    /\ ChampCalls = {1}
    /\ \E i \in 1..Len(prune_log) : prune_log[i].fn = "gamma_estimate"
    /\ Returned(prune_ret)
    /\ prune_ret.val.type = "list"
    /\ Len(prune_ret.val.items) = 1

(***************************************************************************)
(* Claims about the optional arguments N, T, Nt and layer_vec              *)
(***************************************************************************)
\* The model named by the tag needs an argument that args leaves as None.
RequiredUnset(args, name) ==
    \/ name \in {"temporal", "multiplex"} /\ (args.N = Unset \/ args.T = Unset)
    \/ name = "multilevel"
         /\ (args.layer_vec = Unset \/ args.Nt = Unset \/ args.T = Unset)

ConfigErrorOf(name) ==
    IF name = "temporal" THEN TemporalConfigError
    ELSE IF name = "multilevel" THEN MultilevelConfigError
    ELSE MultiplexConfigError

ConfigErrors == {TemporalConfigError, MultilevelConfigError, MultiplexConfigError}

\* The tag selects one of the three models in the dispatch of lines 226-243.
ModelChosen == net_model.name \in KnownTagNames /\ Is(net_model, net_model.name)

\* C11 as stated: whenever a call, direct or through one of the two
\* estimators, was made with a tag that chooses the temporal, multilevel or
\* multiplex model and with an argument that model needs left as None, the
\* call has failed: a direct call with that model's configuration error, a
\* call through an estimator with it or with an error the estimator raised
\* before it reached the persistence function, and never by returning values.
C11_ConfigurationError ==
    (/\ call \in {"persistence_function_from_model",
                  "estimate_multilayer_SBM_parameters", "gamma_omega_estimate"}
     /\ ModelChosen
     /\ RequiredUnset(call_args, net_model.name))
        => \/ ret = ConfigErrorOf(net_model.name)
           \/ call # "persistence_function_from_model" /\ ~Returned(ret)

\* C11 as amended: a direct call of persistence_function_from_model whose tag
\* chooses a model ends with that model's configuration error exactly when an
\* argument the model needs was left as None.  A call of
\* estimate_multilayer_SBM_parameters or gamma_omega_estimate never ends with a
\* configuration error: it ends as the same call does with T, N and Nt passed
\* as the layer count, the vertex count divided by it and the layer sizes.
C11_ConfigurationErrorDirect ==
    /\ (call = "persistence_function_from_model" /\ ModelChosen)
          => (ret = ConfigErrorOf(net_model.name)
                 <=> RequiredUnset(call_args, net_model.name))
    /\ call = "persistence_function_from_model" /\ ~ModelChosen
          => ret = UnknownModel
    /\ call = "estimate_multilayer_SBM_parameters"
          => /\ ret \notin ConfigErrors
             /\ ret = estimate_multilayer_SBM_parameters(
                          net_G, net_G_interlayer, net_layer_vec,
                          louvain_part_with_membership(net_G, net_membership),
                          net_model, ActualArgs.N, ActualArgs.T, ActualArgs.Nt, Unset)
    /\ call = "gamma_omega_estimate"
          => /\ ret \notin ConfigErrors
             /\ ret = gamma_omega_estimate(
                          net_G, net_G_interlayer, net_layer_vec, net_membership,
                          Int2Rat(DefaultOmegaMax), net_model,
                          ActualArgs.N, ActualArgs.T, ActualArgs.Nt, Unset)

\* A direct temporal call that passed N but not T and ended with the temporal
\* configuration error.
C11_Witness ==
    /\ call = "persistence_function_from_model"
    /\ Is(net_model, "temporal")
    /\ call_args.N # Unset
    /\ call_args.T = Unset
    /\ ret = TemporalConfigError


(***************************************************************************)
(* Claims about the persistence inversion                                  *)
(***************************************************************************)
\* The persistence of the partition under the model the tag chooses.
CurrentPersistence ==
    persistence_function_from_model(
        net_model, net_G_interlayer, ActualArgs.layer_vec, ActualArgs.N,
        ActualArgs.T, ActualArgs.Nt, net_membership)

\* The communities of the membership vector.
Communities == {net_membership[v] : v \in DOMAIN net_membership}

\* p is the value of max((K * pers - 1) / (K - 1), 0), for K > 1.
IsClampedInverse(p, K, pers) ==
    IF K * pers[1] - pers[2] < 0 THEN p[1] = 0
    ELSE p[1] * pers[2] * (K - 1) = (K * pers[1] - pers[2]) * p[2]

\* C12: when estimate_multilayer_SBM_parameters has returned for a temporal or
\* multilevel tag, the K it returned is the number of communities of the
\* partition, the p it returned lies in [0, 1], and, with pers the persistence
\* of the partition, p is max((K * pers - 1) / (K - 1), 0) when pers < 1 and
\* K > 1 and is 1 otherwise.
C12_PersistenceInversion ==
    (/\ call = "estimate_multilayer_SBM_parameters"
     /\ Is(net_model, "temporal") \/ Is(net_model, "multilevel")
     /\ Returned(ret))
        => LET p == ret.val[3]
               K == ret.val[4]
               pers == CurrentPersistence.val
           IN /\ Returned(CurrentPersistence)
              /\ K = Cardinality(Communities)
              /\ RLe(RZero, p) /\ RLe(p, ROne)
              /\ IF RLt(pers, ROne) /\ K > 1
                 THEN IsClampedInverse(p, K, pers)
                 ELSE p = ROne

\* A returned estimate whose p is strictly between 0 and 1.
C12_Witness ==
    /\ call = "estimate_multilayer_SBM_parameters"
    /\ Is(net_model, "temporal") \/ Is(net_model, "multilevel")
    /\ Returned(ret)
    /\ RLt(RZero, ret.val[3]) /\ RLt(ret.val[3], ROne)


(***************************************************************************)
(* Claims about estimates on the boundary of a domain                      *)
(***************************************************************************)
\* pt lies on an edge or on a vertex of the convex polygon pv.
OnBoundary(pv, pt) ==
    /\ AllLeft(pv, pt) \/ AllRight(pv, pt)
    /\ ~StrictlyInside(pv, pt)

\* pt lies on the line through edge i of pv.
Touches(pv, i, pt) == Cross(pv[i], Succ(pv, i), pt) = 0

\* C13: when gamma_omega_estimates_to_stable_partitions has been called with a
\* convex polygon of at least 3 vertices, not all on one line, and a non-None
\* estimate that lies exactly on an edge or on a vertex of it, the partition
\* is not among the stable ones: the sign test is true on the edges the
\* estimate touches and false on every other edge, of which there is at least
\* one.  The single-layer filter keeps an estimate equal to gamma_start or to
\* gamma_end.
C13_BoundaryIsUnstable ==
    (Returned(stable_domains) /\ Len(domains_with_estimates) = 1) =>
        LET d == domains_with_estimates[1]
            pt == <<d.gamma_est, d.omega_est>>
            lors == left_or_rights(d.polyverts, d.gamma_est, d.omega_est)
        IN (/\ d.gamma_est # None /\ d.omega_est # None
            /\ OnBoundary(d.polyverts, pt))
              => /\ stable_domains.val = <<>>
                 /\ \A i \in 1..Len(lors) : lors[i] <=> Touches(d.polyverts, i, pt)
                 /\ \E i \in 1..Len(lors) : lors[i]
                 /\ \E i \in 1..Len(lors) : ~lors[i]
                 /\ gamma_estimates_to_stable_partitions(
                        <<[gamma_start |-> d.gamma_est,
                           gamma_end |-> RAdd(d.gamma_est, ROne),
                           membership |-> d.membership,
                           gamma_estimate |-> d.gamma_est],
                          [gamma_start |-> RSub(d.gamma_est, ROne),
                           gamma_end |-> d.gamma_est,
                           membership |-> d.membership,
                           gamma_estimate |-> d.gamma_est]>>)
                      = <<d.membership, d.membership>>

\* An estimate in the interior of an edge of a quadrilateral, not at a vertex,
\* dropped by the filter.
C13_Witness ==
    /\ Returned(stable_domains)
    /\ Len(domains_with_estimates) = 1
    /\ Len(polyverts) = 4
    /\ domains_with_estimates[1].gamma_est # None
    /\ domains_with_estimates[1].omega_est # None
    /\ OnBoundary(polyverts, <<domains_with_estimates[1].gamma_est,
                               domains_with_estimates[1].omega_est>>)
    /\ \A i \in 1..Len(polyverts) :
          polyverts[i] # <<domains_with_estimates[1].gamma_est,
                           domains_with_estimates[1].omega_est>>
    /\ stable_domains.val = <<>>

====
